---- MODULE Spec2Model ----
(***************************************************************************)
(* Sales router of the POS backend (src/rutes/sales.js): recordSale        *)
(* (POST /), applyPayment (POST /:id/pagar-deuda), listSales (GET /),       *)
(* getSaleDetail (GET /:id/detalles) and GET /clientes/con-deuda over a    *)
(* PostgreSQL pool.                                                        *)
(*                                                                         *)
(* The store is modelled with PostgreSQL's default READ COMMITTED          *)
(* isolation: a statement reads the committed rows plus the writes of its  *)
(* own transaction, an UPDATE takes a row lock that is held until COMMIT   *)
(* or ROLLBACK and waits while another transaction holds it, and a waiting *)
(* UPDATE is applied to the row version committed by the lock holder.      *)
(* Every await of a handler is a point where another request may run.      *)
(*                                                                         *)
(* Spec runs two requests concurrently, SpecLive does so under fairness of *)
(* the handlers' steps, SpecSeq serves one request at a time with the      *)
(* widest bodies, SpecQuery runs the read routes on every small table, and *)
(* SpecPay runs payments on every small table of sales with debts.         *)
(***************************************************************************)
EXTENDS Integers, Sequences, FiniteSets, TLC

\* ------------------------------------------------------------------ bounds
MaxStock == 2      \* initial stock of the product; quantities range to one more
MaxItems == 2      \* longest items array of a request
MaxDeuda == 2      \* largest deuda of a request body, largest monto

\* ------------------------------------------------------------ input domains
Procs == {1, 2}                      \* request slots that may run concurrently
ProductoIds == {1}                   \* rows of productos
InputProductoIds == {1, 2}           \* producto_id values of a body (2: no such row)
ClienteIds == {1}                    \* rows of clientes
ClienteIdNums == {1, 2}              \* cliente_id numbers of a body (2: no such row)
Cantidades == (0 - 1) .. (MaxStock + 1)   \* cantidad values of a body
Deudas == (0 - 1) .. MaxDeuda        \* deuda values of a body
MontoNums == 0 .. (MaxDeuda + 1)     \* monto numbers of a body
PrecioTotal == 1                     \* total of a body
Hoy == 8                             \* CURRENT_DATE as a day number (day 0: a Monday)
Fechas == {Hoy - 2, Hoy - 1, Hoy}    \* fecha of the rows of ventas: last week, yesterday, today
VentaIds == {1, 2}                   \* ids the ventas sequence hands out
Admin == [id |-> 1, rol |-> "admin"]
Vendedor == [id |-> 2, rol |-> "vendedor"]
Cajero == [id |-> 3, rol |-> "cajero"]
Callers == {Admin, Vendedor}         \* req.user as set by the token middleware
UserIds == {1, 2}
Permisos ==
  {"can_view_products", "can_edit_products", "can_delete_products",
   "can_create_products", "can_view_sales", "can_create_sales",
   "can_view_customers", "can_edit_customers", "can_view_reports",
   "can_manage_stock"}
Item == [producto_id : ProductoIds, cantidad : Cantidades]
        \cup [producto_id : InputProductoIds \ ProductoIds, cantidad : {1}]
ItemSeqs == UNION {[1..n -> Item] : n \in 0..MaxItems}

\* SQL NULL of ventas.cliente_id; the handlers only ever test the column for
\* truthiness, where null and 0 behave the same.
Null == 0

\* JavaScript values of a request body: null or undefined, a string that is
\* not a number ("abc"), the number v, and the number v + 0.5.
JsNull == [t |-> "null", v |-> 0, f |-> FALSE]
JsText == [t |-> "string", v |-> 0, f |-> FALSE]
JsNum(n) == [t |-> "number", v |-> n, f |-> FALSE]
JsFrac(n) == [t |-> "number", v |-> n, f |-> TRUE]

\* x == null, the truthiness of x, isNaN(x) and parseInt(x) of a number.
esNull(x) == x.t = "null"
truthy(x) == x.t = "string" \/ (x.t = "number" /\ (x.v # 0 \/ x.f))
isNaN(x) == x.t = "string"
parseInt(x) == x.v

InputClienteIds ==
  {JsNull, JsNum(0), JsNum(0 - 1), JsFrac(1)} \cup {JsNum(c) : c \in ClienteIdNums}
Montos == {JsNull, JsText} \cup {JsNum(m) : m \in MontoNums}

VARIABLES
  db,                 \* committed rows: stock, saldo_pendiente, ventas, venta_detalles
  user_permissions,   \* committed rows of user_permissions: user id -> permissions
  ventaSeq,           \* last value of the ventas id sequence (not transactional)
  pc,                 \* position of each request slot
  req,                \* the request of each slot: req.user, params, body
  loc,                \* the handler's local variables
  tx,                 \* uncommitted writes of the slot's transaction
  res,                \* the response sent
  pre,                \* history: committed rows when the request arrived
  hist,               \* history: deuda each sale was created with, amount paid on
                      \* it, and whether a balance update has been skipped
  nreq,               \* recordSale requests issued so far
  pool                \* connections of the pool that are checked out

vars ==
  <<db, user_permissions, ventaSeq, pc, req, loc, tx, res, pre, hist, nreq, pool>>

\* -------------------------------------------------------------- helpers
Min(a, b) == IF a <= b THEN a ELSE b
Max(a, b) == IF a >= b THEN a ELSE b

RECURSIVE SumCantidad(_, _)
SumCantidad(items, p) ==
  IF items = <<>> THEN 0
  ELSE (IF items[1].producto_id = p THEN items[1].cantidad ELSE 0)
       + SumCantidad(Tail(items), p)

\* The deuda of the sales ids of a table ventas that name customer c.
RECURSIVE SumDeuda(_, _, _)
SumDeuda(ventas, ids, c) ==
  IF ids = {} THEN 0
  ELSE LET i == CHOOSE x \in ids : TRUE
       IN (IF ventas[i].cliente_id = c THEN ventas[i].deuda ELSE 0)
          + SumDeuda(ventas, ids \ {i}, c)

\* ------------------------------------------------------- permission rows
defaultPermissionsBad ==
  [can_view_products |-> TRUE, can_edit_products |-> FALSE,
   can_delete_products |-> FALSE, can_create_products |-> FALSE,
   can_view_sales |-> TRUE, can_create_sales |-> TRUE,
   can_view_customers |-> FALSE, can_edit_customers |-> FALSE,
   can_view_reports |-> FALSE, can_manage_stock |-> FALSE]

defaultPermissions ==
  [can_view_products |-> TRUE, can_edit_products |-> FALSE,
   can_delete_products |-> FALSE, can_create_products |-> FALSE,
   can_view_sales |-> TRUE, can_create_sales |-> TRUE,
   can_view_customers |-> TRUE, can_edit_customers |-> FALSE,
   can_view_reports |-> FALSE, can_manage_stock |-> FALSE]

\* Stored rows: one granting every capability, one granting none. (A user
\* without a row gets the defaults: sales yes, customers no.)
PermissionRows == {[p \in Permisos |-> b] : b \in BOOLEAN}

\* Stored rows that grant any subset of the capabilities the sales routes ask
\* for, and no other.
PermisosDeVentas ==
  {"can_create_sales", "can_view_sales", "can_view_customers", "can_edit_customers"}
PermissionRowsDeVentas ==
  {[p \in Permisos |-> p \in S] : S \in SUBSET PermisosDeVentas}

\* result.rows of "SELECT permissions FROM user_permissions WHERE user_id = $1"
permissionRows(uid) ==
  IF uid \in DOMAIN user_permissions THEN <<user_permissions[uid]>> ELSE <<>>

\* The middleware's decision for req.user and the required permission:
\* "next", or the status it answers with.
verificarPermisosVentasBad(user, permisoRequerido, lookupFails) ==
  IF user.rol = "admin" THEN "next"
  ELSE IF user.rol = "vendedor" THEN
    IF lookupFails THEN "500" ELSE "next"
  ELSE "403"

verificarPermisosVentasDenies(user, permisoRequerido, lookupFails) ==
  IF user.rol = "admin" THEN "next"
  ELSE IF user.rol = "vendedor" THEN
    IF lookupFails THEN "403"
    ELSE LET rows == permissionRows(user.id)
             userPermissions == IF Len(rows) > 0 THEN rows[1] ELSE defaultPermissions
         IN IF userPermissions[permisoRequerido] THEN "next" ELSE "403"
  ELSE "403"

verificarPermisosVentas(user, permisoRequerido, lookupFails) ==
  IF user.rol = "admin" THEN "next"
  ELSE IF user.rol = "vendedor" THEN
    IF lookupFails THEN "500"
    ELSE LET rows == permissionRows(user.id)
             userPermissions == IF Len(rows) > 0 THEN rows[1] ELSE defaultPermissions
         IN IF userPermissions[permisoRequerido] THEN "next" ELSE "403"
  ELSE "403"

permisoDeRuta(op) ==
  IF op \in {"sale", "pay"} THEN "can_create_sales"
  ELSE IF op = "deudores" THEN "can_view_customers"
  ELSE "can_view_sales"

\* The permission test made inside the two transactions before the clientes
\* row is updated.
puedeEditarClientesBad(user) == TRUE

puedeEditarClientesPorDefecto(user) ==
  IF user.rol = "vendedor" THEN
    LET rows == permissionRows(user.id)
        userPermissions == IF Len(rows) > 0 THEN rows[1]
                           ELSE [can_edit_customers |-> TRUE]
    IN userPermissions.can_edit_customers
  ELSE TRUE

puedeEditarClientes(user) ==
  IF user.rol = "vendedor" THEN
    LET rows == permissionRows(user.id)
        userPermissions == IF Len(rows) > 0 THEN rows[1]
                           ELSE [can_edit_customers |-> FALSE]
    IN userPermissions.can_edit_customers
  ELSE TRUE

\* ---------------------------------------------------------- the store
Extend(f, k, v) == [i \in DOMAIN f \cup {k} |-> IF i = k THEN v ELSE f[i]]

EmptyTx ==
  [ventas |-> <<>>, detalles |-> <<>>, deuda |-> <<>>,
   dStock |-> [p \in ProductoIds |-> 0], wStock |-> {},
   dSaldo |-> [c \in ClienteIds |-> 0], wSaldo |-> {}]

\* productos.stock as a statement of slot r reads it.
stockVisibleBad(r, p) == db.stock[p]

stockVisible(r, p) == db.stock[p] + tx[r].dStock[p]

\* Row locks other transactions hold; an UPDATE of the row waits for them.
productoLocked(r, p) == \E o \in Procs \ {r} : p \in tx[o].wStock
clienteLocked(r, c) == \E o \in Procs \ {r} : c \in tx[o].wSaldo
ventaLocked(r, id) == \E o \in Procs \ {r} : id \in DOMAIN tx[o].deuda

\* COMMIT: the transaction's writes become the committed rows.
commitTxBad(d, t) ==
  [stock |-> [p \in ProductoIds |-> d.stock[p] + t.dStock[p]],
   saldo |-> [c \in ClienteIds |-> d.saldo[c] + t.dSaldo[c]],
   ventas |-> [i \in DOMAIN d.ventas \cup DOMAIN t.ventas |->
                 IF i \in DOMAIN t.ventas THEN t.ventas[i]
                 ELSE IF i \in DOMAIN t.deuda
                      THEN [d.ventas[i] EXCEPT !.deuda = t.deuda[i]]
                      ELSE d.ventas[i]],
   detalles |-> t.detalles]

commitTx(d, t) ==
  [stock |-> [p \in ProductoIds |-> d.stock[p] + t.dStock[p]],
   saldo |-> [c \in ClienteIds |-> d.saldo[c] + t.dSaldo[c]],
   ventas |-> [i \in DOMAIN d.ventas \cup DOMAIN t.ventas |->
                 IF i \in DOMAIN t.ventas THEN t.ventas[i]
                 ELSE IF i \in DOMAIN t.deuda
                      THEN [d.ventas[i] EXCEPT !.deuda = t.deuda[i]]
                      ELSE d.ventas[i]],
   detalles |-> d.detalles \o t.detalles]

\* ROLLBACK: the transaction's writes are discarded.
rollbackTxStock(d, t) == [d EXCEPT !.stock = commitTx(d, t).stock]

rollbackTxDeuda(d, t) ==
  [d EXCEPT !.ventas = [i \in DOMAIN d.ventas |-> commitTx(d, t).ventas[i]]]

rollbackTx(d, t) == d

\* ------------------------------------------------------- request records
NoReq ==
  [op |-> "none", user |-> Admin, total |-> JsNull, recibido |-> JsNull,
   cambio |-> JsNull, metodo_pago |-> "", cliente_id |-> JsNull, deuda |-> 0,
   user_id |-> 0, items |-> <<>>, itemsIsArray |-> TRUE, id |-> 0,
   monto |-> JsNull, filtro |-> ""]

\* A body of POST / with every required field.
SaleBody ==
  [NoReq EXCEPT !.op = "sale", !.total = JsNum(PrecioTotal),
                !.recibido = JsNum(PrecioTotal), !.cambio = JsNum(0),
                !.metodo_pago = "efectivo", !.user_id = Admin.id]

NoLoc ==
  [gate |-> "", lookup |-> "", client |-> FALSE, released |-> 0,
   rollback |-> "",
   ventaId |-> 0, i |-> 0, err |-> "", at |-> "",
   cliente_id |-> 0, deudaActual |-> 0, pago |-> 0, nuevaDeuda |-> 0,
   clienteActualizado |-> FALSE]

NoRes ==
  [status |-> 0, message |-> "", venta_id |-> 0, deuda_guardada |-> 0,
   pago_registrado |-> 0,
   deuda_anterior |-> 0, deuda_actualizada |-> 0, cliente_actualizado |-> FALSE,
   rows |-> <<>>]

\* Complete bodies: every items array, sold by either caller for cash or on
\* the credit of customer 1; and, without items, every caller, customer, deuda
\* and user_id.
SaleReqsItems ==
  {[SaleBody EXCEPT !.user = u, !.cliente_id = cd[1], !.deuda = cd[2],
                    !.user_id = u.id, !.items = its] :
     u \in Callers, cd \in {<<JsNull, 0>>, <<JsNum(1), MaxDeuda>>},
     its \in ItemSeqs}

SaleReqsDeuda ==
  {[SaleBody EXCEPT !.user = u, !.cliente_id = c, !.deuda = d, !.user_id = w] :
     u \in Callers, c \in {JsNull} \cup {JsNum(n) : n \in ClienteIdNums},
     d \in Deudas, w \in UserIds}

SaleReqsCompletos == SaleReqsItems \cup SaleReqsDeuda

\* Bodies whose cliente_id is 0, negative or not an integer.
SaleReqsCliente ==
  {[SaleBody EXCEPT !.user = u, !.cliente_id = c, !.deuda = d, !.user_id = u.id] :
     u \in Callers, c \in {JsNum(0), JsNum(0 - 1), JsFrac(1)}, d \in {0, MaxDeuda}}

\* Bodies of the admin in which required fields are missing or of another type.
SaleReqsCampos ==
  {[SaleBody EXCEPT !.user = Admin, !.cliente_id = JsNum(1), !.deuda = 1,
                    !.items = IF a THEN <<[producto_id |-> 1, cantidad |-> 1]>>
                              ELSE <<>>,
                    !.itemsIsArray = a,
                    !.total = t, !.recibido = rc, !.cambio = cb,
                    !.metodo_pago = m, !.user_id = w] :
     t \in {JsNull, JsText, JsNum(PrecioTotal)}, rc \in {JsNull, JsText, JsNum(1)},
     cb \in {JsNull, JsText, JsNum(0)}, m \in {"", "efectivo"},
     w \in {0, Admin.id}, a \in BOOLEAN}

\* A request of each route by a caller whose role is neither admin nor vendedor.
SaleReqsCajero == {[SaleBody EXCEPT !.user = Cajero]}

ReqsCajero ==
  {[NoReq EXCEPT !.op = "pay", !.user = Cajero, !.id = 1, !.monto = JsNum(1)],
   [NoReq EXCEPT !.op = "list", !.user = Cajero],
   [NoReq EXCEPT !.op = "detail", !.user = Cajero, !.id = 1],
   [NoReq EXCEPT !.op = "deudores", !.user = Cajero]}

SaleReqs ==
  SaleReqsCompletos \cup SaleReqsCliente \cup SaleReqsCampos \cup SaleReqsCajero

PayReqs ==
  {[NoReq EXCEPT !.op = "pay", !.user = u, !.id = i, !.monto = m] :
     u \in Callers, i \in VentaIds, m \in Montos}

Filtros == {"", "hoy", "semana", "today"}

QueryReqs ==
  {[NoReq EXCEPT !.op = "list", !.user = u] : u \in Callers}
  \cup {[NoReq EXCEPT !.op = "detail", !.user = u, !.id = i] :
          u \in Callers, i \in VentaIds}
  \cup {[NoReq EXCEPT !.op = "deudores", !.user = u] : u \in Callers}
  \cup ReqsCajero

\* The requests of the concurrent specification, all made by the admin: sales
\* of the whole stock of product 1, with or without a debt of customer 1, and
\* payments of 1 against them.
ConcSaleReqs ==
  {[SaleBody EXCEPT !.user = Admin, !.cliente_id = cd[1],
                    !.deuda = cd[2], !.user_id = Admin.id,
                    !.items = <<[producto_id |-> 1, cantidad |-> MaxStock]>>] :
     cd \in {<<JsNull, 0>>, <<JsNum(1), MaxDeuda>>}}

ConcPayReqs ==
  {[NoReq EXCEPT !.op = "pay", !.user = Admin, !.id = i, !.monto = JsNum(1)] :
     i \in VentaIds}

ConcQueryReqs ==
  {[NoReq EXCEPT !.op = "list", !.user = Admin],
   [NoReq EXCEPT !.op = "detail", !.user = Admin, !.id = 1],
   [NoReq EXCEPT !.op = "deudores", !.user = Admin]}

\* The store before the first sale.
db0 ==
  [stock |-> [p \in ProductoIds |-> MaxStock],
   saldo |-> [c \in ClienteIds |-> 0],
   ventas |-> <<>>, detalles |-> <<>>]

Init ==
  /\ db = db0
  /\ user_permissions \in
       {<<>>} \cup {[u \in {Vendedor.id} |-> row] : row \in PermissionRows}
  /\ ventaSeq = 0
  /\ pc = [r \in Procs |-> "idle"]
  /\ req = [r \in Procs |-> NoReq]
  /\ loc = [r \in Procs |-> NoLoc]
  /\ tx = [r \in Procs |-> EmptyTx]
  /\ res = [r \in Procs |-> NoRes]
  /\ pre = [r \in Procs |-> db0]
  /\ hist = [deudaOrig |-> <<>>, pagado |-> <<>>, omitido |-> FALSE]
  /\ nreq = 0
  /\ pool = 0

\* A request arrives, a recordSale drawn from Sales or another drawn from
\* Others; the token middleware has set req.user. At most maxVentas recordSale
\* requests are issued in one behaviour; history is the value recorded in pre.
Receive(r, Sales, Others, maxVentas, history) ==
  /\ pc[r] = "idle"
  /\ \E q \in (IF nreq < maxVentas THEN Sales ELSE {}) \cup Others :
       /\ req' = [req EXCEPT ![r] = q]
       /\ nreq' = IF q.op = "sale" THEN nreq + 1 ELSE nreq
  /\ pc' = [pc EXCEPT ![r] = "gate"]
  /\ pre' = [pre EXCEPT ![r] = history]
  /\ UNCHANGED <<db, user_permissions, ventaSeq, loc, tx, res, hist, pool>>

\* verificarPermisosVentas(permisoRequerido) in front of every route. Only a
\* vendedor's permissions are looked up; loc.lookup records how the query
\* ended.
Gate(r) ==
  /\ pc[r] = "gate"
  /\ \E lookupFails \in BOOLEAN :
       LET out == verificarPermisosVentas(req[r].user, permisoDeRuta(req[r].op),
                                          lookupFails)
       IN /\ loc' = [loc EXCEPT
                  ![r].gate = out,
                  ![r].lookup = IF req[r].user.rol # "vendedor" THEN ""
                                ELSE IF lookupFails THEN "failed" ELSE "ok"]
          /\ IF out = "next"
             THEN /\ pc' = [pc EXCEPT ![r] = req[r].op]
                  /\ res' = res
             ELSE /\ pc' = [pc EXCEPT ![r] = "done"]
                  /\ res' = [res EXCEPT ![r] =
                        [NoRes EXCEPT !.status = IF out = "403" THEN 403 ELSE 500,
                                     !.message = IF out = "403" THEN "" ELSE "internal"]]
  /\ UNCHANGED <<db, user_permissions, ventaSeq, req, tx, pre, hist, nreq, pool>>

\* ------------------------------------------- recordSale: router.post("/")
\* if (total == null || recibido == null || cambio == null || !metodo_pago
\*     || !user_id || !Array.isArray(items))
ventaInvalida(q) ==
  \/ esNull(q.total) \/ esNull(q.recibido) \/ esNull(q.cambio)
  \/ q.metodo_pago = "" \/ q.user_id = 0 \/ ~q.itemsIsArray

\* const clienteIdFinal = cliente_id ? parseInt(cliente_id) : null
clienteIdFinal(cliente_id) == IF truthy(cliente_id) THEN parseInt(cliente_id) ELSE Null

\* client.release() in the finally blocks: the count of checked-out connections.
releaseBad(n) == 0

release(n) == n - 1

\* if (item.cantidad > producto.stock) throw
stockInsuficiente(cantidad, stock) == cantidad > stock

\* UPDATE productos SET stock = stock - $1: the change to the row's stock.
stockUpdateBad(stock, cantidad) == stock - 1

stockUpdate(stock, cantidad) == stock - cantidad

\* Where the handler goes after item i of the loop.
afterItem(r, i) == IF i < Len(req[r].items) THEN "sale_item" ELSE "sale_cliente"

\* The validation of the body; then pool.connect(), BEGIN and the
\* INSERT INTO ventas ... RETURNING id, deuda. (The deuda of a body is a number,
\* which parseFloat(deuda) || 0 leaves as it is; fecha is the column's default.)
SaleBegin(r) ==
  /\ pc[r] = "sale"
  /\ IF ventaInvalida(req[r])
     THEN /\ res' = [res EXCEPT ![r] = [NoRes EXCEPT !.status = 400]]
          /\ pc' = [pc EXCEPT ![r] = "done"]
          /\ UNCHANGED <<ventaSeq, tx, loc, pool>>
     ELSE LET ventaId == ventaSeq + 1
              row == [total |-> req[r].total,
                      cliente_id |-> clienteIdFinal(req[r].cliente_id),
                      deuda |-> req[r].deuda, user_id |-> req[r].user_id,
                      fecha |-> Hoy]
          IN /\ ventaSeq' = ventaId
             /\ tx' = [tx EXCEPT ![r].ventas = Extend(<<>>, ventaId, row)]
             /\ loc' = [loc EXCEPT ![r].client = TRUE, ![r].ventaId = ventaId,
                                   ![r].i = 1]
             /\ pool' = pool + 1
             /\ pc' = [pc EXCEPT ![r] = afterItem(r, 0)]
             /\ res' = res
  /\ UNCHANGED <<db, user_permissions, req, pre, hist, nreq>>

\* SELECT name, purchase_price, stock FROM productos WHERE id = $1, and the
\* two checks on its result.
SaleItemSelect(r) ==
  /\ pc[r] = "sale_item"
  /\ LET item == req[r].items[loc[r].i]
     IN IF item.producto_id \notin ProductoIds
        THEN /\ loc' = [loc EXCEPT ![r].err = "no encontrado"]
             /\ pc' = [pc EXCEPT ![r] = "catch"]
        ELSE IF stockInsuficiente(item.cantidad, stockVisible(r, item.producto_id))
        THEN /\ loc' = [loc EXCEPT ![r].err = "Stock insuficiente"]
             /\ pc' = [pc EXCEPT ![r] = "catch"]
        ELSE /\ loc' = loc
             /\ pc' = [pc EXCEPT ![r] = "sale_update"]
  /\ UNCHANGED <<db, user_permissions, ventaSeq, req, tx, res, pre, hist, nreq, pool>>

\* INSERT INTO venta_detalles, then UPDATE productos SET stock = stock - $1.
SaleItemUpdate(r) ==
  /\ pc[r] = "sale_update"
  /\ LET item == req[r].items[loc[r].i]
         p == item.producto_id
     IN /\ ~productoLocked(r, p)
        /\ tx' = [tx EXCEPT
             ![r].detalles = Append(@, [venta_id |-> loc[r].ventaId,
                                        producto_id |-> p,
                                        cantidad |-> item.cantidad]),
             ![r].dStock[p] = stockUpdate(@, item.cantidad),
             ![r].wStock = @ \cup {p}]
  /\ pc' = [pc EXCEPT ![r] = afterItem(r, loc[r].i)]
  /\ loc' = [loc EXCEPT ![r].i = @ + 1]
  /\ UNCHANGED <<db, user_permissions, ventaSeq, req, res, pre, hist, nreq, pool>>

\* if (clienteIdFinal && deudaFinal > 0): the clientes lookup, the permission
\* test and UPDATE clientes SET saldo_pendiente = saldo_pendiente + $1.
SaleCliente(r) ==
  /\ pc[r] = "sale_cliente"
  /\ LET c == clienteIdFinal(req[r].cliente_id)
         deudaFinal == req[r].deuda
     IN IF c # Null /\ deudaFinal > 0 /\ c \in ClienteIds
           /\ puedeEditarClientes(req[r].user)
        THEN /\ ~clienteLocked(r, c)
             /\ tx' = [tx EXCEPT ![r].dSaldo[c] = @ + deudaFinal,
                                 ![r].wSaldo = @ \cup {c}]
        ELSE tx' = tx
  /\ pc' = [pc EXCEPT ![r] = "sale_commit"]
  /\ UNCHANGED <<db, user_permissions, ventaSeq, req, loc, res, pre, hist, nreq, pool>>

\* COMMIT, res.json({success, venta_id, deuda_guardada}), client.release().
SaleCommit(r) ==
  /\ pc[r] = "sale_commit"
  /\ db' = commitTx(db, tx[r])
  /\ tx' = [tx EXCEPT ![r] = EmptyTx]
  /\ res' = [res EXCEPT ![r] =
        [NoRes EXCEPT !.status = 200, !.venta_id = loc[r].ventaId,
                      !.deuda_guardada = req[r].deuda]]
  /\ hist' = [hist EXCEPT
        !.deudaOrig = Extend(@, loc[r].ventaId, req[r].deuda),
        !.pagado = Extend(@, loc[r].ventaId, 0),
        !.omitido = @ \/ (clienteIdFinal(req[r].cliente_id) # Null /\ req[r].deuda > 0
                          /\ tx[r].wSaldo = {})]
  /\ loc' = [loc EXCEPT ![r].released = @ + 1]
  /\ pool' = release(pool)
  /\ pc' = [pc EXCEPT ![r] = "done"]
  /\ UNCHANGED <<user_permissions, ventaSeq, req, pre, nreq>>

\* A statement of the handler's try block is rejected by the server or the
\* connection; control passes to the catch block. (A rejected COMMIT leaves the
\* transaction uncommitted.) loc.at records which statement it was. At the
\* start of recordSale it is pool.connect() that is rejected, and client stays
\* undefined, or BEGIN or the INSERT, with the connection checked out.
InTry == {"sale", "sale_item", "sale_update", "sale_cliente", "sale_commit",
          "pay_update", "pay_cliente", "pay_commit"}

QueryFails(r) ==
  /\ pc[r] \in InTry
  /\ pc[r] = "sale" => ~ventaInvalida(req[r])
  /\ \E connected \in (IF pc[r] = "sale" THEN BOOLEAN ELSE {TRUE}) :
       /\ loc' = [loc EXCEPT ![r].err = "internal", ![r].at = pc[r],
                             ![r].client = connected]
       /\ pool' = IF pc[r] = "sale" /\ connected THEN pool + 1 ELSE pool
  /\ pc' = [pc EXCEPT ![r] = "catch"]
  /\ UNCHANGED <<db, user_permissions, ventaSeq, req, tx, res, pre, hist, nreq>>

\* finally { if (client) client.release() }: the handler's locals and the pool.
finallyLoc(l) == IF l.client THEN [l EXCEPT !.released = @ + 1] ELSE l
finallyPool(l) == IF l.client THEN release(pool) ELSE pool

\* catch: ROLLBACK when a connection was obtained, res.status(500), and the
\* finally block's release.
Catch(r) ==
  /\ pc[r] = "catch"
  /\ db' = rollbackTx(db, tx[r])
  /\ tx' = [tx EXCEPT ![r] = EmptyTx]
  /\ res' = [res EXCEPT ![r] = [NoRes EXCEPT !.status = 500, !.message = loc[r].err]]
  /\ loc' = [loc EXCEPT ![r] = finallyLoc(@)]
  /\ pool' = finallyPool(loc[r])
  /\ pc' = [pc EXCEPT ![r] = "done"]
  /\ UNCHANGED <<user_permissions, ventaSeq, req, pre, hist, nreq>>

\* The ROLLBACK of the catch block is itself rejected: the error leaves the
\* catch block before res.status(500), the finally block still releases the
\* connection, and the promise of the async handler is rejected. The router
\* either ignores the rejected promise, and no response is sent, or passes
\* the error on (forwarded), and the application's error handler answers 500;
\* which of the two depends on the version of express the build installs. The
\* server ends the transaction of a connection that broke.
RollbackFails(r) ==
  /\ pc[r] = "catch"
  /\ loc[r].client
  /\ db' = rollbackTx(db, tx[r])
  /\ tx' = [tx EXCEPT ![r] = EmptyTx]
  /\ \E forwarded \in BOOLEAN :
       res' = IF forwarded
              THEN [res EXCEPT ![r] =
                      [NoRes EXCEPT !.status = 500, !.message = "internal"]]
              ELSE res
  /\ loc' = [loc EXCEPT ![r] = [finallyLoc(@) EXCEPT !.rollback = "failed"]]
  /\ pool' = finallyPool(loc[r])
  /\ pc' = [pc EXCEPT ![r] = "done"]
  /\ UNCHANGED <<user_permissions, ventaSeq, req, pre, hist, nreq>>

\* ------------------------- applyPayment: router.post("/:id/pagar-deuda")
\* if (!monto || isNaN(monto) || monto <= 0)
montoInvalido(monto) == ~truthy(monto) \/ isNaN(monto) \/ monto.v <= 0

\* parseFloat of a whole number.
parseFloat(x) == x.v

\* const pago = Math.min(parseFloat(monto), deudaActual)
pagoBad(monto, deudaActual) == parseFloat(monto)

pago(monto, deudaActual) == Min(parseFloat(monto), deudaActual)

\* if (req.user.rol !== "admin" && parseInt(venta.user_id) !== req.user.id)
ajenoBad(user, venta) == FALSE

ajeno(user, venta) == user.rol # "admin" /\ venta.user_id # user.id

\* The monto validation, pool.connect(), the SELECT of the sale and the three
\* early returns; then pago and nuevaDeuda are computed from the row read.
PayRead(r) ==
  /\ pc[r] = "pay"
  /\ LET id == req[r].id
         \* return res.status(st) inside the try block, then finally
         answer(st) == /\ res' = [res EXCEPT ![r] = [NoRes EXCEPT !.status = st]]
                       /\ pc' = [pc EXCEPT ![r] = "done"]
                       /\ loc' = [loc EXCEPT ![r].client = TRUE,
                                             ![r].released = @ + 1]
                       /\ pool' = release(pool + 1)
     IN IF montoInvalido(req[r].monto)
        THEN /\ res' = [res EXCEPT ![r] = [NoRes EXCEPT !.status = 400]]
             /\ pc' = [pc EXCEPT ![r] = "done"]
             /\ UNCHANGED <<loc, pool>>
        ELSE IF id \notin DOMAIN db.ventas THEN answer(404)
        ELSE LET venta == db.ventas[id]
                 deudaActual == venta.deuda
             IN IF deudaActual <= 0 THEN answer(400)
                ELSE IF ajeno(req[r].user, venta) THEN answer(403)
                ELSE /\ loc' = [loc EXCEPT
                          ![r].client = TRUE,
                          ![r].cliente_id = venta.cliente_id,
                          ![r].deudaActual = deudaActual,
                          ![r].pago = pago(req[r].monto, deudaActual),
                          ![r].nuevaDeuda =
                             deudaActual - pago(req[r].monto, deudaActual)]
                     /\ pool' = pool + 1
                     /\ pc' = [pc EXCEPT ![r] = "pay_update"]
                     /\ res' = res
  /\ UNCHANGED <<db, user_permissions, ventaSeq, req, tx, pre, hist, nreq>>

\* pool.connect() is rejected, and client stays undefined, or the SELECT of
\* the sale is, with the connection checked out: catch, 500.
PayReadFails(r) ==
  /\ pc[r] = "pay"
  /\ ~montoInvalido(req[r].monto)
  /\ \E connected \in BOOLEAN :
       /\ loc' = [loc EXCEPT ![r].err = "internal", ![r].at = "pay",
                             ![r].client = connected]
       /\ pool' = IF connected THEN pool + 1 ELSE pool
  /\ pc' = [pc EXCEPT ![r] = "catch"]
  /\ UNCHANGED <<db, user_permissions, ventaSeq, req, tx, res, pre, hist, nreq>>

\* BEGIN and UPDATE ventas SET deuda = $1 WHERE id = $2.
PayUpdate(r) ==
  /\ pc[r] = "pay_update"
  /\ ~ventaLocked(r, req[r].id)
  /\ tx' = [tx EXCEPT ![r].deuda = Extend(<<>>, req[r].id, loc[r].nuevaDeuda)]
  /\ pc' = [pc EXCEPT ![r] = "pay_cliente"]
  /\ UNCHANGED <<db, user_permissions, ventaSeq, req, loc, res, pre, hist, nreq, pool>>

\* if (venta.cliente_id): the permission test and
\* UPDATE clientes SET saldo_pendiente = saldo_pendiente - $1 WHERE id = $2.
PayCliente(r) ==
  /\ pc[r] = "pay_cliente"
  /\ LET c == loc[r].cliente_id
     IN IF c # Null /\ puedeEditarClientes(req[r].user)
        THEN /\ loc' = [loc EXCEPT ![r].clienteActualizado = TRUE]
             /\ IF c \in ClienteIds
                THEN /\ ~clienteLocked(r, c)
                     /\ tx' = [tx EXCEPT ![r].dSaldo[c] = @ - loc[r].pago,
                                         ![r].wSaldo = @ \cup {c}]
                ELSE tx' = tx
        ELSE /\ loc' = loc
             /\ tx' = tx
  /\ pc' = [pc EXCEPT ![r] = "pay_commit"]
  /\ UNCHANGED <<db, user_permissions, ventaSeq, req, res, pre, hist, nreq, pool>>

\* COMMIT, res.json({pago_registrado, deuda_anterior, deuda_actualizada,
\* cliente_actualizado}), client.release().
PayCommit(r) ==
  /\ pc[r] = "pay_commit"
  /\ db' = commitTx(db, tx[r])
  /\ tx' = [tx EXCEPT ![r] = EmptyTx]
  /\ res' = [res EXCEPT ![r] =
        [NoRes EXCEPT !.status = 200,
                      !.pago_registrado = loc[r].pago,
                      !.deuda_anterior = loc[r].deudaActual,
                      !.deuda_actualizada = loc[r].nuevaDeuda,
                      !.cliente_actualizado = loc[r].clienteActualizado]]
  /\ hist' = [hist EXCEPT
        !.pagado[req[r].id] = @ + loc[r].pago,
        !.omitido = @ \/ (loc[r].cliente_id # Null /\ tx[r].wSaldo = {})]
  /\ loc' = [loc EXCEPT ![r].released = @ + 1]
  /\ pool' = release(pool)
  /\ pc' = [pc EXCEPT ![r] = "done"]
  /\ UNCHANGED <<user_permissions, ventaSeq, req, pre, nreq>>

\* ------------------------------ listSales and getSaleDetail (read only)
RECURSIVE detallesDeVenta(_, _)
detallesDeVenta(s, id) ==
  IF s = <<>> THEN <<>>
  ELSE (IF s[1].venta_id = id THEN <<s[1]>> ELSE <<>>) \o detallesDeVenta(Tail(s), id)

\* date_trunc('week', d) on day numbers, day 0 being a Monday.
semana(d) == d - (d % 7)

\* The condition the filtro keyword adds to the query, for a row of that fecha.
enFiltroBad(filtro, fecha) == TRUE

enFiltro(filtro, fecha) ==
  IF filtro = "hoy" THEN fecha >= Hoy /\ fecha < Hoy + 1
  ELSE IF filtro = "semana" THEN fecha >= semana(Hoy) /\ fecha < semana(Hoy) + 7
  ELSE TRUE

\* router.get("/"): the ids of the rows of ventas the WHERE clause keeps.
ventasVisiblesBad(user, filtro) ==
  {i \in DOMAIN db.ventas : enFiltro(filtro, db.ventas[i].fecha)}

ventasVisibles(user, filtro) ==
  {i \in DOMAIN db.ventas :
     /\ user.rol = "vendedor" => db.ventas[i].user_id = user.id
     /\ enFiltro(filtro, db.ventas[i].fecha)}

\* ORDER BY v.fecha DESC: the orders the rows may come in.
ordenadas(S) ==
  {s \in [1..Cardinality(S) -> S] :
     /\ \A i, j \in 1..Cardinality(S) : i # j => s[i] # s[j]
     /\ \A i, j \in 1..Cardinality(S) :
          i < j => db.ventas[s[i]].fecha >= db.ventas[s[j]].fecha}

\* client = await pool.connect() of listSales.
ListConnect(r) ==
  /\ pc[r] = "list"
  /\ loc' = [loc EXCEPT ![r].client = TRUE]
  /\ pool' = pool + 1
  /\ pc' = [pc EXCEPT ![r] = "list_query"]
  /\ UNCHANGED <<db, user_permissions, ventaSeq, req, tx, res, pre, hist, nreq>>

\* The query, res.json(result.rows) and the finally block's release.
List(r) ==
  /\ pc[r] = "list_query"
  /\ \E s \in ordenadas(ventasVisibles(req[r].user, req[r].filtro)) :
       res' = [res EXCEPT ![r] = [NoRes EXCEPT !.status = 200, !.rows = s]]
  /\ loc' = [loc EXCEPT ![r] = finallyLoc(@)]
  /\ pool' = finallyPool(loc[r])
  /\ pc' = [pc EXCEPT ![r] = "done"]
  /\ UNCHANGED <<db, user_permissions, ventaSeq, req, tx, pre, hist, nreq>>

\* router.get("/:id/detalles"): the rows of venta_detalles of that sale, read
\* through pool.query. (The ids drawn are numbers, which the id check accepts.)
Detail(r) ==
  /\ pc[r] = "detail"
  /\ res' = [res EXCEPT ![r] =
        [NoRes EXCEPT !.status = 200, !.rows = detallesDeVenta(db.detalles, req[r].id)]]
  /\ pc' = [pc EXCEPT ![r] = "done"]
  /\ UNCHANGED <<db, user_permissions, ventaSeq, req, loc, tx, pre, hist, nreq, pool>>

\* router.get("/clientes/con-deuda"): the customers with saldo_pendiente > 0.
RECURSIVE conDeuda(_)
conDeuda(S) ==
  IF S = {} THEN <<>>
  ELSE LET c == CHOOSE x \in S : \A y \in S : x <= y
       IN (IF db.saldo[c] > 0 THEN <<c>> ELSE <<>>) \o conDeuda(S \ {c})

Deudores(r) ==
  /\ pc[r] = "deudores"
  /\ res' = [res EXCEPT ![r] = [NoRes EXCEPT !.status = 200, !.rows = conDeuda(ClienteIds)]]
  /\ pc' = [pc EXCEPT ![r] = "done"]
  /\ UNCHANGED <<db, user_permissions, ventaSeq, req, loc, tx, pre, hist, nreq, pool>>

\* pool.connect() or the query of a read route is rejected: its catch block
\* answers 500, and the finally block of listSales releases the connection.
ReadFails(r) ==
  /\ pc[r] \in {"list", "list_query", "detail", "deudores"}
  /\ res' = [res EXCEPT ![r] = [NoRes EXCEPT !.status = 500, !.message = "internal"]]
  /\ loc' = [loc EXCEPT ![r] = [finallyLoc(@) EXCEPT !.err = "internal"]]
  /\ pool' = finallyPool(loc[r])
  /\ pc' = [pc EXCEPT ![r] = "done"]
  /\ UNCHANGED <<db, user_permissions, ventaSeq, req, tx, pre, hist, nreq>>

\* The response has been delivered; the slot is free for the next request.
Finish(r) ==
  /\ pc[r] = "done"
  /\ pc' = [pc EXCEPT ![r] = "idle"]
  /\ req' = [req EXCEPT ![r] = NoReq]
  /\ loc' = [loc EXCEPT ![r] = NoLoc]
  /\ res' = [res EXCEPT ![r] = NoRes]
  /\ pre' = [pre EXCEPT ![r] = db0]
  /\ UNCHANGED <<db, user_permissions, ventaSeq, tx, hist, nreq, pool>>

Arrive(r) == Receive(r, SaleReqs, PayReqs \cup QueryReqs, 1, db)

ArriveConc(r) ==
  Receive(r, ConcSaleReqs, ConcPayReqs \cup ConcQueryReqs, Cardinality(VentaIds), db0)

Handle(r) ==
  \/ Gate(r)
  \/ SaleBegin(r)
  \/ SaleItemSelect(r)
  \/ SaleItemUpdate(r)
  \/ SaleCliente(r)
  \/ SaleCommit(r)
  \/ QueryFails(r)
  \/ Catch(r)
  \/ RollbackFails(r)
  \/ PayRead(r)
  \/ PayReadFails(r)
  \/ PayUpdate(r)
  \/ PayCliente(r)
  \/ PayCommit(r)
  \/ ListConnect(r)
  \/ List(r)
  \/ Detail(r)
  \/ Deudores(r)
  \/ ReadFails(r)
  \/ Finish(r)

\* Requests run concurrently: any slot may take its next step.
Next == \E r \in Procs : ArriveConc(r) \/ Handle(r)

\* Only the admin calls in the concurrent specification, so the stored
\* permission rows play no part in it.
InitConc == Init /\ user_permissions = <<>>

Spec == InitConc /\ [][Next]_vars

\* Requests run one at a time: one slot serves them all.
NextSeq == Arrive(1) \/ Handle(1)

SpecSeq == Init /\ [][NextSeq]_vars

\* ------------------------------------------------ concurrent requests, fair
\* One credit sale of one unit, payments of 1 on a sale that exists or not,
\* and the read routes, all by the admin, in two concurrent slots. Node runs
\* every continuation that is ready and the server answers every statement, so
\* a handler that can take a step eventually takes one.
LiveSaleReqs ==
  {[SaleBody EXCEPT !.cliente_id = JsNum(1), !.deuda = 1,
                    !.items = <<[producto_id |-> 1, cantidad |-> 1]>>]}

ArriveLive(r) == Receive(r, LiveSaleReqs, ConcPayReqs \cup ConcQueryReqs, 1, db0)

NextLive == \E r \in Procs : ArriveLive(r) \/ Handle(r)

SpecLive ==
  InitConc /\ [][NextLive]_vars /\ \A r \in Procs : WF_vars(Handle(r))

\* ---------------------------------------------- the read routes on any table
\* Tables of ventas left by earlier sales: cash sales of either user, made last
\* week, yesterday or today, each with no line item or each with one.
VentaRows ==
  [total : {JsNum(PrecioTotal)}, cliente_id : {Null}, deuda : {0},
   user_id : UserIds, fecha : Fechas]

VentaTables ==
  {t \in UNION {[1..n -> VentaRows] : n \in 0..Cardinality(VentaIds)} :
     \A i, j \in DOMAIN t : i < j => t[i].fecha <= t[j].fecha}

dbDe(t, conItems) ==
  [stock |-> [p \in ProductoIds |-> MaxStock - (IF conItems THEN Len(t) ELSE 0)],
   saldo |-> [c \in ClienteIds |-> 0],
   ventas |-> t,
   detalles |-> IF conItems
                THEN [k \in 1..Len(t) |->
                        [venta_id |-> k, producto_id |-> 1, cantidad |-> 1]]
                ELSE <<>>]

InitQuery ==
  /\ \E t \in VentaTables, conItems \in BOOLEAN :
       /\ db = dbDe(t, conItems)
       /\ ventaSeq = Len(t)
       /\ nreq = Len(t)
       /\ hist = [deudaOrig |-> [i \in 1..Len(t) |-> 0],
                  pagado |-> [i \in 1..Len(t) |-> 0], omitido |-> FALSE]
  /\ user_permissions \in
       {<<>>} \cup {[u \in {Vendedor.id} |-> row] : row \in PermissionRowsDeVentas}
  /\ pc = [r \in Procs |-> "idle"]
  /\ req = [r \in Procs |-> NoReq]
  /\ loc = [r \in Procs |-> NoLoc]
  /\ tx = [r \in Procs |-> EmptyTx]
  /\ res = [r \in Procs |-> NoRes]
  /\ pre = [r \in Procs |-> db0]
  /\ pool = 0

\* Requests of the read routes and of applyPayment by every caller.
ReadReqs ==
  {[NoReq EXCEPT !.op = "list", !.user = u, !.filtro = f] :
     u \in Callers \cup {Cajero}, f \in Filtros}
  \cup {[NoReq EXCEPT !.op = "detail", !.user = u, !.id = i] :
          u \in Callers \cup {Cajero}, i \in VentaIds}
  \cup {[NoReq EXCEPT !.op = o, !.user = u, !.id = 1, !.monto = JsNum(1)] :
          o \in {"deudores", "pay"}, u \in Callers \cup {Cajero}}

ArriveQuery(r) == Receive(r, {}, ReadReqs, 0, db)

NextQuery ==
  \/ ArriveQuery(1)
  \/ Gate(1)
  \/ PayRead(1)
  \/ PayReadFails(1)
  \/ Catch(1)
  \/ RollbackFails(1)
  \/ ListConnect(1)
  \/ List(1)
  \/ Detail(1)
  \/ Deudores(1)
  \/ ReadFails(1)
  \/ Finish(1)

SpecQuery == InitQuery /\ [][NextQuery]_vars

\* ------------------------------------------------ payments on any table
\* Tables of ventas left by earlier sales of one unit each: of either user,
\* for cash or on credit, for no customer, for customer 1 or for a customer
\* that has no row in clientes; every credit sale of customer 1 was added to
\* the customer's saldo_pendiente.
DeudaRows ==
  [total : {JsNum(PrecioTotal)}, cliente_id : {Null} \cup ClienteIdNums,
   deuda : 0..MaxDeuda, user_id : UserIds, fecha : {Hoy}]

DeudaTables == UNION {[1..n -> DeudaRows] : n \in 0..Cardinality(VentaIds)}

dbDeDeudas(t) ==
  [stock |-> [p \in ProductoIds |-> MaxStock - Len(t)],
   saldo |-> [c \in ClienteIds |-> SumDeuda(t, DOMAIN t, c)],
   ventas |-> t,
   detalles |-> [k \in 1..Len(t) |->
                   [venta_id |-> k, producto_id |-> 1, cantidad |-> 1]]]

\* Stored rows of the vendedor that grant or not the two capabilities the
\* payment asks for.
PermissionRowsDePago ==
  {[p \in Permisos |-> p \in S] :
     S \in SUBSET {"can_create_sales", "can_edit_customers"}}

InitPay ==
  /\ \E t \in DeudaTables :
       /\ db = dbDeDeudas(t)
       /\ ventaSeq = Len(t)
       /\ nreq = Len(t)
       /\ hist = [deudaOrig |-> [i \in 1..Len(t) |-> t[i].deuda],
                  pagado |-> [i \in 1..Len(t) |-> 0], omitido |-> FALSE]
  /\ user_permissions \in
       {<<>>} \cup {[u \in {Vendedor.id} |-> row] : row \in PermissionRowsDePago}
  /\ pc = [r \in Procs |-> "idle"]
  /\ req = [r \in Procs |-> NoReq]
  /\ loc = [r \in Procs |-> NoLoc]
  /\ tx = [r \in Procs |-> EmptyTx]
  /\ res = [r \in Procs |-> NoRes]
  /\ pre = [r \in Procs |-> db0]
  /\ pool = 0

\* Payments of 1 and of more than any debt, and payments without monto, on
\* either sale by every caller.
PagoReqs ==
  {[NoReq EXCEPT !.op = "pay", !.user = u, !.id = i, !.monto = m] :
     u \in Callers \cup {Cajero}, i \in VentaIds,
     m \in {JsNull, JsNum(1), JsNum(MaxDeuda + 1)}}

\* One credit sale of one unit to customer 1, by either caller.
PaySaleReqs ==
  {[q EXCEPT !.user = u, !.user_id = u.id] : q \in LiveSaleReqs, u \in Callers}

\* One request at a time: a payment, a read by the admin or, while the table
\* has room, one more credit sale.
ArrivePay(r) ==
  Receive(r, PaySaleReqs, PagoReqs \cup ConcQueryReqs, Cardinality(VentaIds), db)

NextPay == ArrivePay(1) \/ Handle(1)

SpecPay == InitPay /\ [][NextPay]_vars

\* =====================================================================
\* Properties
\* =====================================================================
Done(r, op) == pc[r] = "done" /\ req[r].op = op

\* The request passed the permission gate, its body passed the validation and
\* no statement of it failed.
Served(r) ==
  /\ loc[r].gate = "next" /\ loc[r].err # "internal"
  /\ req[r].op = "sale" => ~ventaInvalida(req[r])

\* Every line item names an existing product and asks for no more than the
\* stock left after the items before it.
RECURSIVE ItemsFit(_, _)
ItemsFit(items, stock) ==
  \/ items = <<>>
  \/ /\ items[1].producto_id \in ProductoIds
     /\ items[1].cantidad <= stock[items[1].producto_id]
     /\ ItemsFit(Tail(items),
                 [stock EXCEPT ![items[1].producto_id] = @ - items[1].cantidad])

detallesDe(id, items) ==
  [k \in 1..Len(items) |->
     [venta_id |-> id, producto_id |-> items[k].producto_id,
      cantidad |-> items[k].cantidad]]

\* C1: under every interleaving of concurrent recordSale requests for the same
\* product, the product's committed stock is never negative.
C1_StockNeverNegative == \A p \in ProductoIds : db.stock[p] >= 0

\* C2: when two applyPayment requests with amounts p1 and p2 are the only
\* payments made on a sale created with debt d >= p1 + p2, the sale's deuda
\* after both is d - p1 - p2, whatever the interleaving.
C2_NoLostPayment ==
  \A id \in DOMAIN db.ventas :
    ( /\ Done(1, "pay") /\ Done(2, "pay")
      /\ res[1].status = 200 /\ res[2].status = 200
      /\ req[1].id = id /\ req[2].id = id
      /\ req[1].monto.v > 0 /\ req[2].monto.v > 0
      /\ hist.deudaOrig[id] >= req[1].monto.v + req[2].monto.v
      /\ hist.pagado[id] = res[1].pago_registrado + res[2].pago_registrado )
    => db.ventas[id].deuda = hist.deudaOrig[id] - req[1].monto.v - req[2].monto.v

\* C3: a recordSale request in which some line item names a missing product or
\* asks for more than the product's stock at that point fails, and the committed
\* rows are those of before the request: no sale, no line item, no stock change,
\* no balance change.
C3_SaleAllOrNothing ==
  (Done(1, "sale") /\ ~ItemsFit(req[1].items, pre[1].stock))
    => (res[1].status # 200 /\ db = pre[1])

C3_Witness ==
  /\ Done(1, "sale") /\ res[1].status = 500
  /\ res[1].message = "Stock insuficiente"
  /\ loc[1].i = 2
  /\ req[1].cliente_id = JsNum(1) /\ req[1].deuda > 0

\* What a committed sale leaves behind, relative to the rows before it.
SalePost(r) ==
  LET id == res[r].venta_id
  IN /\ res[r].status = 200
     /\ \A p \in ProductoIds :
          /\ db.stock[p] = pre[r].stock[p] - SumCantidad(req[r].items, p)
          /\ db.stock[p] >= 0
     /\ id \notin DOMAIN pre[r].ventas
     /\ DOMAIN db.ventas = DOMAIN pre[r].ventas \cup {id}
     /\ db.detalles = pre[r].detalles \o detallesDe(id, req[r].items)

\* C4 as stated: a recordSale request that runs alone and whose quantities sum,
\* per product, to at most the product's stock commits; afterwards each stock is
\* the old stock minus the product's total quantity, one sale row and one line
\* item per input item exist, and no stock is negative.
C4_Original ==
  ( /\ Done(1, "sale") /\ Served(1)
    /\ \A k \in 1..Len(req[1].items) : req[1].items[k].producto_id \in ProductoIds
    /\ \A p \in ProductoIds : SumCantidad(req[1].items, p) <= pre[1].stock[p] )
    => SalePost(1)

\* C4 amended: the same, when each line item asks for at most the stock left
\* after the items before it (which the per-product sums do not ensure once a
\* quantity is negative).
C4_SaleCommits ==
  (Done(1, "sale") /\ Served(1) /\ ItemsFit(req[1].items, pre[1].stock))
    => SalePost(1)

C4_Witness ==
  /\ Done(1, "sale") /\ res[1].status = 200
  /\ Len(req[1].items) = 2
  /\ \A k \in 1..2 : req[1].items[k].cantidad = 1
  /\ db.stock[1] = 0

\* C5: an accepted applyPayment of p > 0 on a sale of debt d > 0 reports
\* paid = min(p, d), leaves deuda = max(0, d - p) = d - paid, and answers
\* previousDebt = d with previousDebt - paid = newDebt; payments made one after
\* another never take a deuda below 0.
C5_PaymentClamped ==
  /\ (Done(1, "pay") /\ res[1].status = 200) =>
       LET d == pre[1].ventas[req[1].id].deuda
           p == req[1].monto.v
           paid == res[1].pago_registrado
       IN /\ p > 0 /\ d > 0
          /\ paid = Min(p, d)
          /\ db.ventas[req[1].id].deuda = Max(0, d - p)
          /\ db.ventas[req[1].id].deuda = d - paid
          /\ res[1].deuda_anterior = d
          /\ res[1].deuda_anterior - paid = res[1].deuda_actualizada
          /\ res[1].deuda_actualizada = db.ventas[req[1].id].deuda
  /\ \A id \in DOMAIN db.ventas :
       hist.pagado[id] > 0 => db.ventas[id].deuda >= 0

C5_Witness ==
  /\ Done(1, "pay") /\ res[1].status = 200
  /\ req[1].monto.v > res[1].deuda_anterior
  /\ hist.pagado[req[1].id] > res[1].pago_registrado

\* C6: in every reachable state every sale's deuda is at least 0 and at most
\* the deuda the sale was created with.
C6_DeudaInRange ==
  \A id \in DOMAIN db.ventas :
    0 <= db.ventas[id].deuda /\ db.ventas[id].deuda <= hist.deudaOrig[id]

\* C7: in every reachable state every customer's saldo_pendiente is >= 0.
C7_SaldoNeverNegative == \A c \in ClienteIds : db.saldo[c] >= 0

\* C8: when no balance update has been skipped and every sale was recorded with
\* deuda >= 0, each customer's saldo_pendiente is its initial value plus the
\* current deuda of the sales recorded for that customer.
C8_BalancesReconcile ==
  (~hist.omitido /\ \A id \in DOMAIN hist.deudaOrig : hist.deudaOrig[id] >= 0)
    => \A c \in ClienteIds :
         db.saldo[c] = db0.saldo[c] + SumDeuda(db.ventas, DOMAIN db.ventas, c)

\* C9: when a statement inside the payment transaction fails, neither the
\* sale's deuda nor the customer's saldo_pendiente changes.
C9_PaymentAtomic ==
  (Done(1, "pay") /\ res[1].status = 500) => db = pre[1]

C9_Witness ==
  /\ Done(1, "pay") /\ res[1].status = 500
  /\ loc[1].at = "pay_cliente"
  /\ loc[1].cliente_id \in ClienteIds
  /\ loc[1].pago > 0

\* The vendedor of the request lacks the permission its route requires.
LacksPermission(r) ==
  /\ req[r].op # "none"
  /\ req[r].user.rol = "vendedor"
  /\ req[r].op \in {"sale", "pay", "list", "detail"}
  /\ LET permiso == IF req[r].op \in {"sale", "pay"} THEN "can_create_sales"
                    ELSE "can_view_sales"
     IN IF req[r].user.id \in DOMAIN user_permissions
        THEN ~user_permissions[req[r].user.id][permiso]
        ELSE FALSE

\* C10: a request of a vendedor who lacks can_create_sales (recordSale,
\* applyPayment) or can_view_sales (listSales, getSaleDetail) never reaches its
\* handler and changes no row; the denial is answered 403, and the only other
\* answer is the 500 of a permission lookup that itself failed.
C10_PermissionGate ==
  \A r \in Procs :
    LacksPermission(r) =>
      /\ pc[r] \in {"gate", "done"}
      /\ tx[r] = EmptyTx
      /\ db = pre[r]
      /\ pc[r] = "done" =>
           \/ res[r].status = 403
           \/ res[r].status = 500 /\ res[r].message = "internal"

C10_Witness ==
  /\ Done(1, "pay") /\ LacksPermission(1) /\ res[1].status = 403
  /\ req[1].id \in DOMAIN db.ventas
  /\ db.ventas[req[1].id].deuda > 0
  /\ db.ventas[req[1].id].user_id = req[1].user.id
  /\ req[1].monto.v > 0

Range(s) == {s[i] : i \in DOMAIN s}

\* The rows of ventas in the time window of the keyword.
EnVentana(filtro) ==
  {i \in DOMAIN db.ventas :
     /\ filtro = "hoy" => (Hoy <= db.ventas[i].fecha /\ db.ventas[i].fecha < Hoy + 1)
     /\ filtro = "semana" =>
          (Hoy - 1 <= db.ventas[i].fecha /\ db.ventas[i].fecha < Hoy + 6)}

\* C11: whatever the table of ventas holds, listSales answers a vendedor with
\* exactly the sales in the filter's window whose user_id is the caller's id,
\* never a sale of another user id, and an admin with every sale in the window.
C11_ListScoping ==
  (Done(1, "list") /\ res[1].status = 200) =>
    /\ Len(res[1].rows) = Cardinality(Range(res[1].rows))
    /\ req[1].user.rol = "vendedor" =>
         Range(res[1].rows) =
           {i \in EnVentana(req[1].filtro) : db.ventas[i].user_id = req[1].user.id}
    /\ req[1].user.rol = "admin" => Range(res[1].rows) = EnVentana(req[1].filtro)

C11_Witness ==
  /\ Done(1, "list") /\ res[1].status = 200
  /\ req[1].user = Vendedor /\ req[1].filtro = ""
  /\ Len(db.ventas) = 2
  /\ db.ventas[1].user_id = Vendedor.id /\ db.ventas[2].user_id = Admin.id
  /\ res[1].rows = <<1>>

\* The capabilities that are true in the fixed default set.
DefaultGranted ==
  {"can_view_sales", "can_create_sales", "can_view_customers", "can_view_products"}

\* The decision table: is the capability granted to the user.
Granted(user, cap) ==
  IF user.rol = "admin" THEN TRUE
  ELSE IF user.rol = "vendedor"
       THEN IF user.id \in DOMAIN user_permissions
            THEN user_permissions[user.id][cap]
            ELSE cap \in DefaultGranted
       ELSE FALSE

\* C12: the permission resolver grants an admin always and without a lookup, a
\* vendedor with a stored row iff the row has the capability true, a vendedor
\* without a row iff the capability is one of the four true in the default set,
\* and refuses any other role; and the middleware of each route has decided so
\* whenever its lookup did not fail.
C12_DecisionTable ==
  /\ \A u \in Callers \cup {Cajero}, cap \in Permisos :
       (verificarPermisosVentas(u, cap, FALSE) = "next") <=> Granted(u, cap)
  /\ \A cap \in Permisos : verificarPermisosVentas(Admin, cap, TRUE) = "next"
  /\ (loc[1].gate # "" /\ (loc[1].gate = "500" => req[1].user.rol # "vendedor")) =>
       LET cap == IF req[1].op \in {"sale", "pay"} THEN "can_create_sales"
                  ELSE IF req[1].op \in {"list", "detail"} THEN "can_view_sales"
                  ELSE "can_view_customers"
       IN (loc[1].gate = "next") <=> Granted(req[1].user, cap)

C12_Witness ==
  /\ Done(1, "deudores") /\ res[1].status = 200
  /\ req[1].user = Vendedor
  /\ Vendedor.id \notin DOMAIN user_permissions

C19_DetailScoping ==
  ( /\ Done(1, "detail") /\ res[1].status = 200
    /\ req[1].user.rol = "vendedor"
    /\ req[1].id \in DOMAIN db.ventas
    /\ db.ventas[req[1].id].user_id # req[1].user.id )
    => res[1].rows = <<>>

\* C13: recordSale answers 400, before any connection or transaction and
\* without changing a row, every body in which total, recibido or cambio is
\* missing or not a number, metodo_pago or user_id is missing, or items is not
\* an array; a body with an empty items array is not rejected for that.
C13_ValidationRejects ==
  /\ ( /\ Done(1, "sale") /\ loc[1].gate = "next"
       /\ \/ \E x \in {req[1].total, req[1].recibido, req[1].cambio} : x.t # "number"
          \/ req[1].metodo_pago = "" \/ req[1].user_id = 0 \/ ~req[1].itemsIsArray )
       => (res[1].status = 400 /\ ~loc[1].client /\ db = pre[1])
  /\ ( /\ Done(1, "sale") /\ loc[1].gate = "next"
       /\ \A x \in {req[1].total, req[1].recibido, req[1].cambio} : x.t = "number"
       /\ req[1].metodo_pago # "" /\ req[1].user_id # 0 /\ req[1].itemsIsArray
       /\ req[1].items = <<>> )
       => res[1].status # 400

\* C14: applyPayment checks, before it opens its transaction and leaving every
\* row as it was: monto missing, not a number or <= 0 answers 400; a sale id
\* that does not exist answers 404; a sale whose deuda is <= 0 answers 400; a
\* caller who is not admin and whose id is not the sale's user_id answers 403.
\* So a vendedor never changes the deuda of a sale of another user id.
C14_PaymentPreconditions ==
  /\ (Done(1, "pay") /\ loc[1].gate = "next" /\ loc[1].err = "") =>
       LET m == req[1].monto
           id == req[1].id
           rejected(st) == res[1].status = st /\ db = pre[1] /\ loc[1].pago = 0
       IN IF m.t # "number" \/ m.v <= 0 THEN rejected(400) /\ ~loc[1].client
          ELSE IF id \notin DOMAIN pre[1].ventas THEN rejected(404)
          ELSE IF pre[1].ventas[id].deuda <= 0 THEN rejected(400)
          ELSE IF req[1].user.rol # "admin"
                  /\ pre[1].ventas[id].user_id # req[1].user.id THEN rejected(403)
          ELSE res[1].status = 200
  /\ \A id \in DOMAIN pre[1].ventas :
       (req[1].op = "pay" /\ req[1].id = id /\ req[1].user.rol = "vendedor"
        /\ pre[1].ventas[id].user_id # req[1].user.id)
         => db.ventas[id].deuda = pre[1].ventas[id].deuda

C14_Witness ==
  /\ Done(1, "pay") /\ res[1].status = 403 /\ loc[1].gate = "next"
  /\ req[1].user = Vendedor
  /\ req[1].id \in DOMAIN db.ventas
  /\ db.ventas[req[1].id].user_id = Admin.id
  /\ db.ventas[req[1].id].deuda > 0

\* The body's cliente_id is absent or a positive integer.
ClienteIdRegular(x) == x.t = "null" \/ (x.t = "number" /\ ~x.f /\ x.v > 0)

\* C15: a recordSale with a customer id and deuda > 0 still commits, header
\* with that deuda, line items and stock decrements, when the customer does not
\* exist or the caller is a vendedor without can_edit_customers, and then no
\* saldo_pendiente changes; otherwise the customer's saldo_pendiente grows by
\* exactly the deuda. Without a customer id, or with deuda 0, no
\* saldo_pendiente changes.
C15_SoftFail ==
  ( /\ Done(1, "sale") /\ Served(1) /\ ItemsFit(req[1].items, pre[1].stock)
    /\ ClienteIdRegular(req[1].cliente_id) ) =>
    LET c == req[1].cliente_id
        debt == req[1].deuda
        u == req[1].user
        sinPermiso == /\ u.rol = "vendedor"
                      /\ IF u.id \in DOMAIN user_permissions
                         THEN ~user_permissions[u.id].can_edit_customers
                         ELSE TRUE
    IN IF c.t = "number" /\ debt > 0
       THEN /\ SalePost(1)
            /\ db.ventas[res[1].venta_id].deuda = debt
            /\ IF c.v \notin ClienteIds \/ sinPermiso
               THEN db.saldo = pre[1].saldo
               ELSE db.saldo = [pre[1].saldo EXCEPT ![c.v] = @ + debt]
       ELSE (c.t = "null" \/ debt = 0) => db.saldo = pre[1].saldo

C15_Witness ==
  /\ Done(1, "sale") /\ res[1].status = 200
  /\ req[1].user = Vendedor /\ ~puedeEditarClientes(Vendedor)
  /\ req[1].cliente_id = JsNum(1) /\ req[1].deuda > 0
  /\ Len(req[1].items) = 1
  /\ db.stock[1] < pre[1].stock[1]
  /\ db.saldo = pre[1].saldo

\* C17: every sale row committed by recordSale has 0 <= deuda <= total when it
\* is created.
C17_DeudaWithinTotal ==
  \A id \in DOMAIN db.ventas :
    db.ventas[id].total.t = "number" =>
      (0 <= hist.deudaOrig[id] /\ hist.deudaOrig[id] <= db.ventas[id].total.v)

\* C20: for a cliente_id that is absent, null, 0, negative or not an integer
\* the committed sale has cliente_id null and no saldo_pendiente changes; for a
\* positive integer the committed sale has exactly that cliente_id.
C20_ClienteIdNormalized ==
  (Done(1, "sale") /\ res[1].status = 200) =>
    LET c == req[1].cliente_id
        row == db.ventas[res[1].venta_id]
    IN IF c.t = "number" /\ ~c.f /\ c.v > 0
       THEN row.cliente_id = c.v
       ELSE row.cliente_id = Null /\ db.saldo = pre[1].saldo

\* The slot holds a connection it has not released.
Holds(r) == loc[r].client /\ loc[r].released = 0

\* C16: every request that obtains a pooled connection releases it, exactly
\* once and eventually, on the success path, on the early returns of
\* applyPayment and on the failure paths; the pool counts exactly the
\* connections still held, and none once every request has finished.
C16_ConnectionReleased ==
  /\ [](\A r \in Procs :
          /\ loc[r].released <= 1
          /\ loc[r].released = 1 => loc[r].client
          /\ (pc[r] \in {"idle", "done"}) => ~Holds(r))
  /\ [](pool = Cardinality({r \in Procs : Holds(r)}))
  /\ []((\A r \in Procs : pc[r] \in {"idle", "done"}) => pool = 0)
  /\ \A r \in Procs : Holds(r) ~> (loc[r].released = 1)

C16_Witness ==
  /\ Done(1, "pay") /\ res[1].status = 404
  /\ loc[1].client /\ loc[1].released = 1
  /\ Holds(2) /\ pool = 1


\* The position of the first line item, in input order, that names a missing
\* product or asks for more than the stock the items before it leave; 0 when
\* every item fits. k is the position of items[1] in the request.
RECURSIVE PrimerFallo(_, _, _)
PrimerFallo(items, stock, k) ==
  IF items = <<>> THEN 0
  ELSE IF items[1].producto_id \notin ProductoIds THEN k
  ELSE IF items[1].cantidad > stock[items[1].producto_id] THEN k
  ELSE PrimerFallo(Tail(items),
                   [stock EXCEPT ![items[1].producto_id] = @ - items[1].cantidad],
                   k + 1)

ErrorDeItem(item) ==
  IF item.producto_id \notin ProductoIds THEN "no encontrado"
  ELSE "Stock insuficiente"

\* C21: recordSale handles the line items in input order, and has inserted the
\* line item and decremented the stock of every item before the one it is
\* handling; a sale that fails on its items stops at the first failing item in
\* input order, with that item's error (product not found, else insufficient
\* stock) as the one error of the response, and an item is checked against
\* the stock left by the earlier items of the same sale.
C21_ItemOrder ==
  /\ pc[1] \in {"sale_item", "sale_update"} =>
       LET hechos == SubSeq(req[1].items, 1, loc[1].i - 1)
       IN /\ tx[1].detalles = detallesDe(loc[1].ventaId, hechos)
          /\ \A p \in ProductoIds : tx[1].dStock[p] = 0 - SumCantidad(hechos, p)
  /\ (Done(1, "sale") /\ Served(1)) =>
       LET k == PrimerFallo(req[1].items, pre[1].stock, 1)
       IN IF k = 0 THEN loc[1].err = ""
          ELSE /\ loc[1].i = k
               /\ loc[1].err = ErrorDeItem(req[1].items[k])
               /\ res[1].status = 500
                    => res[1].message = ErrorDeItem(req[1].items[k])
                       \/ loc[1].rollback = "failed"
               /\ loc[1].rollback # "failed"
                    => res[1].status = 500

\* Two items would fail, the first for a missing product and the second for
\* its quantity; the response carries the error of the first.
C21_Witness ==
  /\ Done(1, "sale") /\ res[1].status = 500
  /\ Len(req[1].items) = 2
  /\ req[1].items[1].producto_id \notin ProductoIds
  /\ req[1].items[2].producto_id \in ProductoIds
  /\ req[1].items[2].cantidad > pre[1].stock[req[1].items[2].producto_id]
  /\ res[1].message = "no encontrado" /\ loc[1].i = 1

\* C22: a successful payment on a sale changes only that sale's deuda and,
\* when the response says the customer was updated, the saldo_pendiente of
\* the sale's customer: the sale's other fields, every other sale, every line
\* item, every product's stock and every other customer's balance are as they
\* were before the request; and no step of any request changes or removes a
\* committed line item.
C22_PaymentFrame ==
  /\ [](( Done(1, "pay") /\ res[1].status = 200 ) =>
          LET id == req[1].id
              c == pre[1].ventas[id].cliente_id
          IN /\ DOMAIN db.ventas = DOMAIN pre[1].ventas
             /\ \A j \in DOMAIN db.ventas :
                  db.ventas[j] =
                    IF j = id
                    THEN [pre[1].ventas[j] EXCEPT !.deuda = db.ventas[j].deuda]
                    ELSE pre[1].ventas[j]
             /\ db.detalles = pre[1].detalles
             /\ db.stock = pre[1].stock
             /\ \A k \in ClienteIds :
                  (k # c \/ ~res[1].cliente_actualizado)
                    => db.saldo[k] = pre[1].saldo[k])
  /\ [][ /\ Len(db'.detalles) >= Len(db.detalles)
         /\ \A k \in 1..Len(db.detalles) : db'.detalles[k] = db.detalles[k] ]_vars

\* A payment on one of two sales with line items, which lowered that sale's
\* deuda and the balance of its customer while the other sale kept its debt.
C22_Witness ==
  /\ Done(1, "pay") /\ res[1].status = 200
  /\ res[1].cliente_actualizado
  /\ res[1].pago_registrado > 0
  /\ Len(db.ventas) = 2 /\ Len(db.detalles) = 2
  /\ \E j \in DOMAIN db.ventas : j # req[1].id /\ db.ventas[j].deuda > 0
  /\ db.ventas[req[1].id].deuda < pre[1].ventas[req[1].id].deuda
  /\ \E k \in ClienteIds : db.saldo[k] < pre[1].saldo[k]

\* C23: when the permission lookup of a vendedor fails at the gate, the
\* request is answered 500 with the internal-error body, not 403, and is not
\* let through: the handler obtains no connection, opens no transaction and
\* the tables are as they were before the request; and the step of the gate
\* itself never changes a table.
C23_LookupFailure ==
  /\ [](loc[1].lookup = "failed" =>
          /\ pc[1] = "done"
          /\ loc[1].gate = "500"
          /\ res[1].status = 500 /\ res[1].message = "internal"
          /\ ~loc[1].client /\ loc[1].ventaId = 0
          /\ tx[1] = EmptyTx /\ pool = 0
          /\ db = pre[1])
  /\ [][pc[1] = "gate" =>
          /\ db' = db /\ user_permissions' = user_permissions
          /\ ventaSeq' = ventaSeq /\ tx' = tx]_vars

\* A vendedor whose stored row grants the permission asks for a sale that
\* would have committed, and the lookup fails.
C23_Witness ==
  /\ Done(1, "sale") /\ loc[1].lookup = "failed"
  /\ res[1].status = 500
  /\ Vendedor.id \in DOMAIN user_permissions
  /\ user_permissions[Vendedor.id].can_create_sales
  /\ ~ventaInvalida(req[1])
  /\ Len(req[1].items) > 0 /\ ItemsFit(req[1].items, db.stock)

\* C24: no recordSale request increases a product's stock: after the request
\* every product's committed stock is at most what it was before it, also
\* when a line item's cantidad is zero or negative.
C24_StockNeverIncreases ==
  Done(1, "sale") => \A p \in ProductoIds : db.stock[p] <= pre[1].stock[p]

\* C25: the user_id of every committed sale is the id of the authenticated
\* caller of the recordSale request that created it.
C25_CreatorIsCaller ==
  (Done(1, "sale") /\ res[1].status = 200)
    => db.ventas[res[1].venta_id].user_id = req[1].user.id

\* C26: under every interleaving of applyPayment requests no step raises the
\* committed deuda of a sale; in particular a deuda that has reached 0 stays 0.
C26_DeudaMonotone ==
  [][\A id \in DOMAIN db.ventas :
       db'.ventas[id].deuda <= db.ventas[id].deuda]_vars

\* The debts the sales were created with, as rows SumDeuda can add up.
DeudasOriginales ==
  [i \in DOMAIN db.ventas |->
     [cliente_id |-> db.ventas[i].cliente_id, deuda |-> hist.deudaOrig[i]]]

\* C27: under every interleaving of applyPayment requests, the
\* pago_registrado amounts of the successful payments on a sale add up to at
\* most the debt the sale was created with, and the amount taken off a
\* customer's saldo_pendiente is at most the debt recorded for the customer.
C27_PaymentsWithinDebt ==
  /\ \A id \in DOMAIN hist.pagado : hist.pagado[id] <= hist.deudaOrig[id]
  /\ \A c \in ClienteIds :
       LET recorded == SumDeuda(DeudasOriginales, DOMAIN db.ventas, c)
           subtracted == db0.saldo[c] + recorded - db.saldo[c]
       IN subtracted <= recorded

\* C29: every recordSale and applyPayment request whose handler has ended has
\* been answered, whichever way it ended: success, rejection, a failed
\* statement, a failed pool.connect() or a failed ROLLBACK.
C29_AlwaysAnswered ==
  \A r \in Procs :
    (pc[r] = "done" /\ req[r].op \in {"sale", "pay"}) => res[r].status # 0

\* C28: the cliente_actualizado flag of a successful payment is true exactly
\* when the saldo_pendiente of an existing customer went down by the
\* pago_registrado of the response.
C28_FlagAccurate ==
  (Done(1, "pay") /\ res[1].status = 200) =>
    (res[1].cliente_actualizado <=>
       \E c \in ClienteIds :
         db.saldo[c] = pre[1].saldo[c] - res[1].pago_registrado)

\* The resolver's answer for can_edit_customers, when its lookup succeeds.
ResolverGrants(user) ==
  verificarPermisosVentas(user, "can_edit_customers", FALSE) = "next"

\* C30: for an admin and for a vendedor, with any stored permission row or
\* none, the test made inside the two transactions gives what the resolver
\* gives for can_edit_customers; so a committed credit sale to an existing
\* customer has raised the customer's balance, and a successful payment on a
\* sale of an existing customer has lowered it, exactly when the resolver
\* would grant can_edit_customers to the caller.
C30_InlineAgrees ==
  /\ \A u \in Callers : puedeEditarClientes(u) <=> ResolverGrants(u)
  /\ (Done(1, "sale") /\ res[1].status = 200
        /\ clienteIdFinal(req[1].cliente_id) \in ClienteIds /\ req[1].deuda > 0) =>
       LET c == clienteIdFinal(req[1].cliente_id)
       IN /\ ResolverGrants(req[1].user)
               => db.saldo[c] = pre[1].saldo[c] + req[1].deuda
          /\ ~ResolverGrants(req[1].user) => db.saldo = pre[1].saldo
  /\ (Done(1, "pay") /\ res[1].status = 200
        /\ pre[1].ventas[req[1].id].cliente_id \in ClienteIds) =>
       LET c == pre[1].ventas[req[1].id].cliente_id
       IN /\ res[1].cliente_actualizado <=> ResolverGrants(req[1].user)
          /\ ResolverGrants(req[1].user)
               => db.saldo[c] = pre[1].saldo[c] - res[1].pago_registrado
          /\ ~ResolverGrants(req[1].user) => db.saldo = pre[1].saldo

\* A vendedor whose stored row grants can_create_sales and not
\* can_edit_customers pays a sale of customer 1: the balance is left alone.
C30_Witness ==
  /\ Done(1, "pay") /\ res[1].status = 200
  /\ req[1].user = Vendedor
  /\ Vendedor.id \in DOMAIN user_permissions
  /\ ~user_permissions[Vendedor.id].can_edit_customers
  /\ pre[1].ventas[req[1].id].cliente_id \in ClienteIds
  /\ ~res[1].cliente_actualizado
  /\ db.saldo = pre[1].saldo
====
